---- MODULE Spec2Model ----
(***************************************************************************)
(* Conversational Unit Converter (src/uc2.py): a Streamlit script.  Every  *)
(* user interaction re-executes the whole script against the session's     *)
(* st.session_state and the widgets' values.  One action of this module is *)
(* one execution of the script, from its first line to its last (or to the *)
(* uncaught exception that ends it).                                       *)
(*                                                                         *)
(* Python strings are TLA+ strings: Len, \o and SubSeq act on them         *)
(* character by character.  The number_input value is kept in tenths       *)
(* (step=0.1), and formatted the way an f-string formats a float.          *)
(***************************************************************************)
EXTENDS Integers, Sequences, FiniteSets, TLC

VARIABLES
    session_state,      \* st.session_state: a mapping from the keys set so far
    selected_category,  \* value of the "Category:" selectbox
    value,              \* value of the "Value:" number_input, in tenths
    selected_model,     \* value of the "Select AI Model:" selectbox
    to_options,         \* the "To Unit:" candidates of the last execution
    default_index,      \* the index (0-based) given to the "To Unit:" selectbox
    outcome,            \* what the HTTP call of the last execution produced
    response,           \* what get_conversion_response returned to the handler
    error,              \* the uncaught exception that ended the last execution
    interaction         \* the user interaction the last execution served

vars == <<session_state, selected_category, value, selected_model, to_options,
          default_index, outcome, response, error, interaction>>

----
(* Bounds of the exploration *)

\* number_input values explored: 0.0, 0.1, ..., MaxTenths / 10
MaxTenths == 1

\* length of the short generated text explored
ShortLen == 2

----
(* Static configuration *)

model_options == <<"mistralai/Mistral-7B-Instruct-v0.2", "meta-llama/Llama-2-7b-chat-hf">>

CategoryNames ==
    <<"Length", "Weight/Mass", "Volume", "Temperature", "Time",
      "Area", "Speed", "Pressure", "Energy", "Data">>

unit_categories ==
    [c \in {CategoryNames[i] : i \in 1..Len(CategoryNames)} |->
        CASE c = "Length"      -> <<"mm", "cm", "m", "km", "in", "ft", "yd", "mi">>
          [] c = "Weight/Mass" -> <<"mg", "g", "kg", "oz", "lb", "ton">>
          [] c = "Volume"      -> <<"ml", "L", "gal", "pt", "qt", "fl oz", "cm³", "m³">>
          [] c = "Temperature" -> <<"°C", "°F", "K">>
          [] c = "Time"        -> <<"sec", "min", "hr", "day", "week", "month", "year">>
          [] c = "Area"        -> <<"mm²", "cm²", "m²", "km²", "in²", "ft²", "acre", "hectare">>
          [] c = "Speed"       -> <<"m/s", "km/h", "mph", "knot">>
          [] c = "Pressure"    -> <<"Pa", "kPa", "bar", "psi", "atm">>
          [] c = "Energy"      -> <<"J", "cal", "kcal", "kWh", "eV">>
          [] c = "Data"        -> <<"bit", "byte", "KB", "MB", "GB", "TB">>]

\* response[:100] and len(response) > 100
TruncLen == 100

\* len(conversion_history) > 5
HistoryCap == 5

----
(* Python helpers *)

Range(s) == {s[i] : i \in 1..Len(s)}

Min(a, b) == IF a < b THEN a ELSE b

\* list.index(x), 0-based; the caller has checked x in s
Index0(s, x) == (CHOOSE i \in 1..Len(s) : s[i] = x /\ \A j \in 1..(i - 1) : s[j] # x) - 1

\* s[:n]
Prefix(s, n) == SubSeq(s, 1, Min(n, Len(s)))

RECURSIVE Repeat(_, _)
Repeat(c, n) == IF n = 0 THEN "" ELSE c \o Repeat(c, n - 1)

\* f"{value}" of the float value/10
FormatValue(v) == ToString(v \div 10) \o "." \o ToString(v % 10)

\* Python values (decoded JSON): records tagged with the Python type name
PyNone == [type |-> "NoneType"]
PyInt(n) == [type |-> "int", n |-> n]
PyStr(s) == [type |-> "str", s |-> s]
PyList(items) == [type |-> "list", items |-> items]
PyDict(fields) == [type |-> "dict", fields |-> fields]

\* str(x) of a decoded JSON scalar
Str(x) ==
    CASE x.type = "str" -> x.s
      [] x.type = "int" -> ToString(x.n)
      [] x.type = "NoneType" -> "None"

\* d.get(key, default)
DictGet(d, key, default) == IF key \in DOMAIN d.fields THEN d.fields[key] ELSE default

NoPick == ""
NoOutcome == [kind |-> "none"]
NoResponse == [type |-> "none"]

----
(* Selection state: lines 49-90 *)

Categories == DOMAIN unit_categories

AllUnits == UNION {Range(unit_categories[c]) : c \in Categories}

\* ResetSelection replacing the whole session state by the three selection keys
ResetSelection_Clear(ss, cat) ==
    LET units == unit_categories[cat] IN
    [k \in {"from_unit", "to_unit", "current_category"} |->
        CASE k = "from_unit" -> units[1]
          [] k = "to_unit" -> IF Len(units) > 1 THEN units[2] ELSE units[1]
          [] k = "current_category" -> cat]

\* ResetSelection without line 51 once a from_unit is stored
ResetSelection_KeepFrom(ss, cat) ==
    LET units == unit_categories[cat] IN
    [k \in DOMAIN ss \cup {"from_unit", "to_unit", "current_category"} |->
        CASE k = "from_unit" -> IF k \in DOMAIN ss THEN ss[k] ELSE units[1]
          [] k = "to_unit" -> IF Len(units) > 1 THEN units[2] ELSE units[1]
          [] k = "current_category" -> cat
          [] OTHER -> ss[k]]

\* lines 51-53
ResetSelection(ss, cat) ==
    LET units == unit_categories[cat] IN
    [k \in DOMAIN ss \cup {"from_unit", "to_unit", "current_category"} |->
        CASE k = "from_unit" -> units[1]
          [] k = "to_unit" -> IF Len(units) > 1 THEN units[2] ELSE units[1]
          [] k = "current_category" -> cat
          [] OTHER -> ss[k]]

\* NeedsReset without the comparison with current_category
NeedsReset_OnlyFirst(ss, cat) == "from_unit" \notin DOMAIN ss

\* line 50
NeedsReset(ss, cat) ==
    \/ "from_unit" \notin DOMAIN ss
    \/ "current_category" \notin DOMAIN ss
    \/ ss["current_category"] # cat

\* ToOptions without the filter of line 75
ToOptions_Unfiltered(cat, from_unit) == unit_categories[cat] \o <<from_unit>>

\* lines 75-77
ToOptions(cat, from_unit) ==
    SelectSeq(unit_categories[cat], LAMBDA unit : unit # from_unit) \o <<from_unit>>

\* lines 80-83
DefaultIndex(prev_to, cat, opts) ==
    IF prev_to \in Range(unit_categories[cat])
    THEN IF prev_to \in Range(opts) THEN Index0(opts, prev_to) ELSE 0
    ELSE 0

----
(* Conversion request dispatcher: lines 93-131 *)

ErrorPrefix == "Sorry, I encountered an error: "

\* lines 121-126: the value of result_text, or the exception raised on the way
ExtractText(j) ==
    CASE j.type = "list" ->
            IF j.items = <<>>
            THEN [raised |-> TRUE, msg |-> "list index out of range"]
            ELSE IF j.items[1].type # "dict"
            THEN [raised |-> TRUE,
                  msg |-> "'" \o j.items[1].type \o "' object has no attribute 'get'"]
            ELSE [raised |-> FALSE, val |-> DictGet(j.items[1], "generated_text", PyStr(""))]
      [] j.type = "dict" ->
            [raised |-> FALSE, val |-> DictGet(j, "generated_text", PyStr(""))]
      [] OTHER ->
            [raised |-> FALSE, val |-> PyStr(Str(j))]

\* lines 117-131: o is what requests.post / response.json() produced
get_conversion_response(o) ==
    IF o.kind = "raise"
    THEN PyStr(ErrorPrefix \o o.msg)
    ELSE LET r == ExtractText(o.json) IN
         IF r.raised THEN PyStr(ErrorPrefix \o r.msg) ELSE r.val

----
(* Convert button handler: lines 134-156 *)

\* line 137
Query(v, from_unit, to_unit) == FormatValue(v) \o " " \o from_unit \o " to " \o to_unit

\* line 150
HistoryEntry(query, text) ==
    IF Len(text) > TruncLen
    THEN query \o " → " \o Prefix(text, TruncLen) \o "..."
    ELSE text

\* list.insert(0, e)
Insert0(h, e) == <<e>> \o h

\* list.pop(0)
Pop_First(h) == SubSeq(h, 2, Len(h))

\* list.pop()
Pop(h) == SubSeq(h, 1, Len(h) - 1)

\* Record without the membership test of line 151
Record_NoDedup(h, e) ==
    LET h1 == Insert0(h, e) IN
    IF Len(h1) > HistoryCap THEN Pop(h1) ELSE h1

\* lines 151-154
Record(h, e) ==
    IF e \notin Range(h)
    THEN LET h1 == Insert0(h, e) IN
         IF Len(h1) > HistoryCap THEN Pop(h1) ELSE h1
    ELSE h

\* lines 147-148
EnsureHistory(ss) ==
    IF "conversion_history" \in DOMAIN ss
    THEN ss
    ELSE [k \in DOMAIN ss \cup {"conversion_history"} |->
            IF k = "conversion_history" THEN <<>> ELSE ss[k]]

\* len(x) raises TypeError on these
Unsized(x) == x.type \in {"NoneType", "int"}

----
(* One execution of the script *)

Set(ss, key, val) == [k \in DOMAIN ss \cup {key} |-> IF k = key THEN val ELSE ss[k]]

\* line 135: the number_input never returns None; a unit is false when empty
Filled(from_unit, to_unit) == from_unit # "" /\ to_unit # ""

\* lines 136-154, on the session state the selectboxes left
Handler(ss, v, from_unit, to_unit, o) ==
    LET resp == get_conversion_response(o)
        ss4 == EnsureHistory(ss)
    IN  IF Unsized(resp)
        THEN [ss |-> ss4, response |-> resp, error |-> "TypeError"]
        ELSE [ss |-> Set(ss4, "conversion_history",
                         Record(ss4["conversion_history"],
                                HistoryEntry(Query(v, from_unit, to_unit), resp.s))),
              response |-> resp, error |-> "none"]

\* lines 47-156: cat, from_pick, to_pick are what the selectboxes return
\* (NoPick: the option at the index the script passes), pressed is st.button's value
RunScript(ss, cat, from_pick, to_pick, v, pressed, o) ==
    LET ss1 == IF NeedsReset(ss, cat) THEN ResetSelection(ss, cat) ELSE ss
        units == unit_categories[cat]
    IN  IF ss1["from_unit"] \notin Range(units)
        THEN \* line 64: list.index raises ValueError
             [ss |-> ss1, to_options |-> to_options, default_index |-> default_index,
              response |-> NoResponse, error |-> "ValueError"]
        ELSE
    LET from_unit == IF from_pick = NoPick
                     THEN units[Index0(units, ss1["from_unit"]) + 1]
                     ELSE from_pick
        ss2 == Set(ss1, "from_unit", from_unit)
        opts == ToOptions(cat, from_unit)
        idx == DefaultIndex(ss2["to_unit"], cat, opts)
        to_unit == IF to_pick = NoPick THEN opts[idx + 1] ELSE to_pick
        ss3 == Set(ss2, "to_unit", to_unit)
    IN  IF pressed /\ Filled(from_unit, to_unit)
        THEN LET h == Handler(ss3, v, from_unit, to_unit, o) IN
             [ss |-> h.ss, to_options |-> opts, default_index |-> idx,
              response |-> h.response, error |-> h.error]
        ELSE [ss |-> ss3, to_options |-> opts, default_index |-> idx,
              response |-> NoResponse, error |-> "none"]

Finish(r, name, o) ==
    /\ session_state' = r.ss
    /\ to_options' = r.to_options
    /\ default_index' = r.default_index
    /\ response' = r.response
    /\ error' = r.error
    /\ outcome' = o
    /\ interaction' = name

Loaded == "from_unit" \in DOMAIN session_state

----
(* Interactions *)

\* the first execution, when the page is opened
Load ==
    /\ ~Loaded
    /\ Finish(RunScript(session_state, selected_category, NoPick, NoPick, value, FALSE, NoOutcome),
              "Load", NoOutcome)
    /\ UNCHANGED <<selected_category, value, selected_model>>

SelectCategory(c) ==
    /\ Loaded
    /\ selected_category' = c
    /\ Finish(RunScript(session_state, c, NoPick, NoPick, value, FALSE, NoOutcome),
              "SelectCategory", NoOutcome)
    /\ UNCHANGED <<value, selected_model>>

SelectFromUnit(u) ==
    /\ Loaded
    /\ u \in Range(unit_categories[selected_category])
    /\ Finish(RunScript(session_state, selected_category, u, NoPick, value, FALSE, NoOutcome),
              "SelectFromUnit", NoOutcome)
    /\ UNCHANGED <<selected_category, value, selected_model>>

SelectToUnit(t) ==
    /\ Loaded
    /\ t \in Range(to_options)
    /\ Finish(RunScript(session_state, selected_category, NoPick, t, value, FALSE, NoOutcome),
              "SelectToUnit", NoOutcome)
    /\ UNCHANGED <<selected_category, value, selected_model>>

EditValue(v) ==
    /\ Loaded
    /\ value' = v
    /\ Finish(RunScript(session_state, selected_category, NoPick, NoPick, v, FALSE, NoOutcome),
              "EditValue", NoOutcome)
    /\ UNCHANGED <<selected_category, selected_model>>

SelectModel(m) ==
    /\ Loaded
    /\ selected_model' = m
    /\ Finish(RunScript(session_state, selected_category, NoPick, NoPick, value, FALSE, NoOutcome),
              "SelectModel", NoOutcome)
    /\ UNCHANGED <<selected_category, value>>

Convert(o) ==
    /\ Loaded
    /\ Finish(RunScript(session_state, selected_category, NoPick, NoPick, value, TRUE, o),
              "Convert", o)
    /\ UNCHANGED <<selected_category, value, selected_model>>

----
(* Inputs *)

Values == 0..MaxTenths

Raise(msg) == [kind |-> "raise", msg |-> msg]
Json(j) == [kind |-> "json", json |-> j]

Generated(text) == PyDict([k \in {"generated_text"} |-> text])
EmptyDict == PyDict([k \in {} |-> PyNone])

\* the outcomes explored with the whole form
FormOutcomes == {Raise("timeout"), Json(EmptyDict)}

----
(* The whole form *)

Init ==
    /\ session_state = [k \in {} |-> ""]
    /\ selected_category = CategoryNames[1]
    /\ value = 0
    /\ selected_model = model_options[1]
    /\ to_options = <<>>
    /\ default_index = 0
    /\ outcome = NoOutcome
    /\ response = NoResponse
    /\ error = "none"
    /\ interaction = "none"

Next ==
    \/ Load
    \/ \E c \in Categories : SelectCategory(c)
    \/ \E u \in Range(unit_categories[selected_category]) : SelectFromUnit(u)
    \/ \E t \in Range(to_options) : SelectToUnit(t)
    \/ \E v \in Values : EditValue(v)
    \/ \E m \in Range(model_options) : SelectModel(m)
    \/ \E o \in FormOutcomes : Convert(o)

Spec == Init /\ [][Next]_vars

----
(* The history under a richer set of responses, with the selection left alone *)

ShortText == Repeat("a", ShortLen)
ExactText == Repeat("a", TruncLen)
LongText == Repeat("a", TruncLen + 1)
LongText2 == Repeat("a", TruncLen) \o "b"

HistoryOutcomes ==
    { Raise("timeout"),
      Json(EmptyDict),
      Json(PyList(<<Generated(PyStr(ShortText))>>)),
      Json(Generated(PyStr(ExactText))),
      Json(Generated(PyStr(LongText))),
      Json(PyList(<<Generated(PyStr(LongText2))>>)) }

HistoryNext ==
    \/ Load
    \/ \E v \in Values : EditValue(v)
    \/ \E o \in HistoryOutcomes : Convert(o)

HistorySpec == Init /\ [][HistoryNext]_vars

----
(* The dispatcher under every shape of decoded response *)

DispatcherOutcomes ==
    { Raise("timeout"),
      Raise(Repeat("x", TruncLen)),
      Json(PyList(<<>>)),
      Json(PyList(<<Generated(PyStr(ShortText))>>)),
      Json(PyList(<<EmptyDict>>)),
      Json(PyList(<<PyInt(5)>>)),
      Json(PyList(<<Generated(PyNone)>>)),
      Json(Generated(PyStr(ShortText))),
      Json(Generated(PyNone)),
      Json(Generated(PyInt(5))),
      Json(EmptyDict),
      Json(PyInt(5)),
      Json(PyStr(ShortText)),
      Json(PyNone) }

DispatcherNext ==
    \/ Load
    \/ \E o \in DispatcherOutcomes : Convert(o)

DispatcherSpec == Init /\ [][DispatcherNext]_vars

----
(* Lines 73-90 under every stored selection, also a to_unit of another      *)
(* category, which the test of line 80 is there for                         *)

ToOptionsInit ==
    /\ \E c \in Categories :
        /\ selected_category = c
        /\ \E f \in Range(unit_categories[c]) : \E t \in AllUnits :
              session_state = [k \in {"from_unit", "to_unit", "current_category"} |->
                                  CASE k = "from_unit" -> f
                                    [] k = "to_unit" -> t
                                    [] k = "current_category" -> c]
    /\ value = 0
    /\ selected_model = model_options[1]
    /\ to_options = <<>>
    /\ default_index = 0
    /\ outcome = NoOutcome
    /\ response = NoResponse
    /\ error = "none"
    /\ interaction = "none"

ToOptionsNext ==
    \/ \E u \in Range(unit_categories[selected_category]) : SelectFromUnit(u)
    \/ \E v \in Values : EditValue(v)

ToOptionsSpec == ToOptionsInit /\ [][ToOptionsNext]_vars

----
(* Readings of the state used by the properties below *)

FromUnit == session_state["from_unit"]
ToUnit == session_state["to_unit"]
CurrentCategory == session_state["current_category"]

History(ss) == IF "conversion_history" \in DOMAIN ss THEN ss["conversion_history"] ELSE <<>>

\* the elements of s other than x, in the order of s
Without(s, x) == SelectSeq(s, LAMBDA y : y # x)

\* the step is an execution of the script that served interaction name
Served(name) == interaction' = name /\ Loaded'

----
(* C1: in a category of two or more units, after selectFromUnit(u) and the  *)
(* recomputation of the "to" selection that follows it, the stored to_unit  *)
(* differs from u, also when the stored to_unit was u.                      *)
C1_ToUnitDiffersAfterSelectFromUnit ==
    [][Served("SelectFromUnit") /\ Len(unit_categories[selected_category']) >= 2
          => ToUnit' # FromUnit']_vars

----
(* C2: a completed conversion whose summary is not yet in the history adds  *)
(* one entry, at the front: the "value from to" query, then the first 100   *)
(* characters of the response, then the ellipsis marker exactly when the    *)
(* response is longer than 100 characters; the query is there for every     *)
(* response length.                                                         *)
C2_Summary(v, from_unit, to_unit, text) ==
    Query(v, from_unit, to_unit) \o " → " \o Prefix(text, TruncLen)
        \o (IF Len(text) > TruncLen THEN "..." ELSE "")

C2_EntryIsQueryThenTruncatedResponse ==
    [][Served("Convert") /\ response'.type = "str"
          => LET e == C2_Summary(value', FromUnit', ToUnit', response'.s)
                 h == History(session_state)
                 h1 == History(session_state')
             IN  e \notin Range(h)
                    => /\ h1 # <<>>
                       /\ h1[1] = e
                       /\ Len(h1) = Min(Len(h) + 1, HistoryCap)]_vars

----
(* C3: for a decoded sequence (of any length, also empty) the dispatcher    *)
(* returns element 0's generated_text, or the empty string if absent; for a *)
(* mapping its generated_text, or the empty string if absent; for any other *)
(* value its stringification.  A decoded response never yields the          *)
(* apologetic error string.                                                 *)
C3_Expected(j) ==
    CASE j.type = "list" ->
            IF j.items # <<>> /\ j.items[1].type = "dict"
                 /\ "generated_text" \in DOMAIN j.items[1].fields
            THEN j.items[1].fields["generated_text"]
            ELSE PyStr("")
      [] j.type = "dict" ->
            IF "generated_text" \in DOMAIN j.fields
            THEN j.fields["generated_text"]
            ELSE PyStr("")
      [] OTHER -> PyStr(Str(j))

C3_ExtractionByShape ==
    (interaction = "Convert" /\ outcome.kind = "json")
        => response = C3_Expected(outcome.json)

----
----
(* C5: the history never holds more than 5 entries and is newest first: a   *)
(* new entry goes to position 0, the entries before it keep their order     *)
(* behind it, and when there were already 5 the one dropped is the last.    *)
C5_CapAndEviction ==
    /\ [](Len(History(session_state)) <= 5)
    /\ [][LET h == History(session_state)
              h1 == History(session_state')
              NewestFirst ==
                /\ h1[1] \notin Range(h)
                /\ Len(h1) = Min(Len(h) + 1, 5)
                /\ \A i \in 2..Len(h1) : h1[i] = h[i - 1]
          IN  /\ h1 # h => NewestFirst
              /\ (Served("Convert") /\ error' = "none"
                    /\ HistoryEntry(Query(value', FromUnit', ToUnit'), response'.s)
                          \notin Range(h))
                    => /\ NewestFirst
                       /\ h1[1] = HistoryEntry(Query(value', FromUnit', ToUnit'),
                                               response'.s)]_vars

C5_Witness ==
    /\ Len(History(session_state)) = 5
    /\ interaction = "Convert"
    /\ History(session_state)[1] = ""
    /\ ErrorPrefix \o "timeout" \notin Range(History(session_state))
    /\ ExactText \in Range(History(session_state))
    /\ ShortText \in Range(History(session_state))
    /\ \E i \in 2..5 : Len(History(session_state)[i]) > TruncLen

----
(* C6: the history never holds two identical entries, and a conversion      *)
(* whose summary is already in the history, at any position, leaves the     *)
(* history as it was.                                                       *)
C6_NoDuplicates ==
    /\ [](\A i, j \in 1..Len(History(session_state)) :
            History(session_state)[i] = History(session_state)[j] => i = j)
    /\ [][(Served("Convert") /\ error' = "none")
            => (HistoryEntry(Query(value', FromUnit', ToUnit'), response'.s)
                    \in Range(History(session_state))
                => History(session_state') = History(session_state))]_vars

C6_Witness ==
    /\ interaction = "Convert"
    /\ outcome = Json(PyList(<<Generated(PyStr(LongText2))>>))
    /\ Len(History(session_state)) = 3
    /\ History(session_state)[3] = HistoryEntry(Query(value, FromUnit, ToUnit), LongText)

----
(* C7: selecting a category other than the stored current_category (or when *)
(* nothing is stored yet) ends with from_unit = C[0], to_unit = C[1] (C[0]  *)
(* for a one-unit category) and current_category = C; selecting the current *)
(* category leaves from_unit and to_unit as they were.                      *)
C7_SelectCategory ==
    [][(Served("SelectCategory") \/ Served("Load")) =>
          LET C == unit_categories[selected_category'] IN
          IF ~Loaded \/ selected_category' # session_state["current_category"]
          THEN /\ FromUnit' = C[1]
               /\ ToUnit' = IF Len(C) >= 2 THEN C[2] ELSE C[1]
               /\ CurrentCategory' = selected_category'
          ELSE /\ FromUnit' = FromUnit
               /\ ToUnit' = ToUnit]_vars

C7_Witness ==
    /\ interaction = "SelectCategory"
    /\ Loaded
    /\ CurrentCategory = "Temperature"
    /\ FromUnit = "°C"
    /\ ToUnit = "°F"

----
(* C8: in every state from_unit and to_unit belong to the unit list of      *)
(* current_category; after a category change neither is a unit of the       *)
(* previous category.                                                       *)
C8_UnitsOfCurrentCategory ==
    Loaded =>
        /\ CurrentCategory \in Categories
        /\ FromUnit \in Range(unit_categories[CurrentCategory])
        /\ ToUnit \in Range(unit_categories[CurrentCategory])

C8_Witness ==
    /\ Loaded
    /\ interaction = "SelectCategory"
    /\ CurrentCategory = "Data"
    /\ History(session_state) # <<>>

----
(* C9: a failed request with description m makes the dispatcher return      *)
(* "Sorry, I encountered an error: " followed by m; on every path the       *)
(* dispatcher returns a display string and the Convert action completes     *)
(* without an uncaught error.                                               *)
C9_AlwaysADisplayString ==
    interaction = "Convert" =>
        /\ outcome.kind = "raise" => response = PyStr(ErrorPrefix \o outcome.msg)
        /\ response.type = "str"
        /\ error = "none"

----
(* C10: the "to" candidates for category C and from_unit u are the units of *)
(* C other than u in their order in C, then u once, at the end: |C|         *)
(* candidates, no two alike; the default choice is the previous to_unit if  *)
(* it is among them, otherwise the first candidate.                         *)
C10_ToCandidates ==
    [][(Loaded /\ Loaded' /\ error' = "none" /\ selected_category' = selected_category) =>
          LET C == unit_categories[selected_category']
              u == FromUnit'
              n == Len(to_options')
          IN  /\ n = Len(C)
              /\ to_options'[n] = u
              /\ SubSeq(to_options', 1, n - 1) = Without(C, u)
              /\ Cardinality(Range(to_options')) = n
              /\ default_index' \in 0..(n - 1)
              /\ to_options'[default_index' + 1] =
                    IF ToUnit \in Range(to_options') THEN ToUnit ELSE to_options'[1]]_vars

C10_Witness ==
    /\ interaction = "SelectFromUnit"
    /\ selected_category = "Speed"
    /\ FromUnit = "mph"
    /\ to_options = <<"m/s", "km/h", "knot", "mph">>
    /\ default_index = 1
    /\ ToUnit = "km/h"

====
